---- MODULE Spec2Model ----
(***************************************************************************)
(* The two transport adapters of the runtime RPC library:                  *)
(*   rpcservice.Service.WrapAPIGatewayHTTP  (AWS API Gateway / Lambda)     *)
(*   devserver.Server                        (local chi HTTP server)       *)
(* One request is followed from its arrival to its response.  The service *)
(* (its identity provider hook, its methods) and the dev server's          *)
(* authenticator are fixed at construction.  What lies outside the         *)
(* adapters (the identity provider hook, Method.Invoke, the JWT library)   *)
(* is an input chosen at the step that calls it.                           *)
(***************************************************************************)
EXTENDS Integers, Sequences, FiniteSets, TLC

VARIABLES
    identityProvider,   \* Service.IdentityProvider: "nil" or "set"
    authnr,             \* the *Authenticator given to AddService: "nil" or "set"
    adapter,            \* which adapter serves the current request
    pc,                 \* position of the request in its handler
    event,              \* events.APIGatewayProxyRequest (gateway)
    req,                \* *http.Request (dev server)
    identity,           \* auth.Claims put in the call context
    idErr,              \* error returned by createAuthIdentity
    hookLog,            \* what the identity provider hook answered, per call
    invoked,            \* the body bytes given to Method.Invoke, per call
    invokeErr,          \* the error Invoke returned
    result,             \* the result Invoke returned
    rendered,           \* the errors given to the error renderer, in order
    res,                \* events.APIGatewayProxyResponse returned (gateway)
    w,                  \* calls made on the http.ResponseWriter (dev server)
    panicked            \* the handler goroutine panicked

svcVars  == <<identityProvider, authnr>>
vars     == <<identityProvider, authnr, adapter, pc, event, req, identity, idErr,
              hookLog, invoked, invokeErr, result, rendered, res, w, panicked>>

(***************************************************************************)
(* Bounds                                                                  *)
(***************************************************************************)
MaxScopes == 2      \* longest `scopes` sequence of an authorizer payload

(***************************************************************************)
(* net/http status codes used by the adapters                              *)
(***************************************************************************)
StatusOK                  == 200
StatusNoContent           == 204
StatusBadRequest          == 400
StatusUnauthorized        == 401
StatusForbidden           == 403
StatusInternalServerError == 500

(***************************************************************************)
(* runtime.ErrCode* (package runtime, referenced by both adapters)         *)
(***************************************************************************)
ErrCodeUnknown               == "unknown"
ErrCodeBadRequest            == "bad_request"
ErrCodeInvalidBody           == "invalid_body"
ErrCodeSchemaFailure         == "schema_failure"
ErrCodeMissingBody           == "missing_body"
ErrCodeForbidden             == "forbidden"
ErrCodeNoAuthentication      == "no_authentication"
ErrCodeInvalidAuthentication == "invalid_authentication"
ErrCodeInvalidToken          == "invalid_token"

(***************************************************************************)
(* Errors.  A Go `error` is nil, a hand.E value (code, optional message)   *)
(* or any other error value, of which only the text is known.              *)
(***************************************************************************)
NoError        == [k |-> "nil"]
handNew(code)  == [k |-> "hand", code |-> code, message |-> ""]
WithMessage(e, msg) == [e EXCEPT !.message = msg]
errorsNew(text) == [k |-> "plain", text |-> text]

\* err.(hand.E): the type assertion both renderers start with
IsHandE(err) == err.k = "hand"

TaxonomyCodes ==
    {ErrCodeUnknown, ErrCodeBadRequest, ErrCodeInvalidBody, ErrCodeSchemaFailure,
     ErrCodeMissingBody, ErrCodeForbidden, ErrCodeNoAuthentication,
     ErrCodeInvalidAuthentication}

\* codes outside the status table: the adapters' own and an application's
OtherCodes ==
    {ErrCodeInvalidToken, "method_not_found", "authentication_required",
     "authentication_error", "teapot"}

\* the errors a method or a hook may return
HandErrors ==
    {handNew(c) : c \in TaxonomyCodes \cup OtherCodes}
        \cup {WithMessage(handNew(ErrCodeForbidden), "banned"),
              WithMessage(handNew("teapot"), "short and stout")}
PlainErrors ==
    {errorsNew("dial tcp 10.0.0.1:5432: refused"), errorsNew("forbidden")}
Errors == HandErrors \cup PlainErrors

(***************************************************************************)
(* encoding/json                                                           *)
(***************************************************************************)
\* json.Marshal(hand.E): {"code": ..., "message"?: ...}.  A hand.E of this
\* shape always encodes.
MarshalHandE(e) ==
    [err   |-> NoError,
     bytes |-> "{\"code\":\"" \o e.code \o "\""
                 \o (IF e.message = "" THEN ""
                     ELSE ",\"message\":\"" \o e.message \o "\"")
                 \o "}"]

\* results a method may return (interface{})
NilResult == [t |-> "nil"]
Results ==
    {NilResult,
     [t |-> "string", s |-> "hi"],
     [t |-> "string", s |-> ""],
     [t |-> "object", text |-> "hi"],
     [t |-> "nilptr"],
     [t |-> "chan"]}

\* json.Marshal(result)
Marshal(v) ==
    CASE v.t = "string" -> [err |-> NoError, bytes |-> "\"" \o v.s \o "\""]
      [] v.t = "object" -> [err |-> NoError,
                            bytes |-> "{\"text\":\"" \o v.text \o "\"}"]
      [] v.t = "nilptr" -> [err |-> NoError, bytes |-> "null"]
      [] v.t = "nil"    -> [err |-> NoError, bytes |-> "null"]
      [] OTHER          -> [err   |-> errorsNew("json: unsupported type: chan int"),
                            bytes |-> ""]

(***************************************************************************)
(* rpcservice/wrap_api_gateway_http.go                                     *)
(***************************************************************************)
\* the Content-Type header of a response ("" when the header is not set)
NoContentType   == ""
JSONContentType == "application/json; charset=utf-8"

\* apiGatewayErrorResponse with the text of an error that is no hand.E put
\* in the body
apiGatewayErrorResponse_leak(err) ==
    IF IsHandE(err)
    THEN [StatusCode |->
              CASE err.code \in {ErrCodeBadRequest, ErrCodeInvalidBody,
                                 ErrCodeSchemaFailure, ErrCodeMissingBody}
                        -> StatusBadRequest
                [] err.code = ErrCodeForbidden -> StatusForbidden
                [] err.code \in {ErrCodeNoAuthentication,
                                 ErrCodeInvalidAuthentication}
                        -> StatusUnauthorized
                [] OTHER -> StatusInternalServerError,
          Body        |-> MarshalHandE(err).bytes,
          ContentType |-> JSONContentType]
    ELSE [StatusCode  |-> StatusInternalServerError,
          Body        |-> MarshalHandE(
                              WithMessage(handNew(ErrCodeUnknown), err.text)).bytes,
          ContentType |-> JSONContentType]

apiGatewayErrorResponse(err) ==
    IF IsHandE(err)
    THEN [StatusCode |->
              CASE err.code \in {ErrCodeBadRequest, ErrCodeInvalidBody,
                                 ErrCodeSchemaFailure, ErrCodeMissingBody}
                        -> StatusBadRequest
                [] err.code = ErrCodeForbidden -> StatusForbidden
                [] err.code \in {ErrCodeNoAuthentication,
                                 ErrCodeInvalidAuthentication}
                        -> StatusUnauthorized
                [] OTHER -> StatusInternalServerError,
          Body        |-> MarshalHandE(err).bytes,
          ContentType |-> JSONContentType]
    ELSE [StatusCode  |-> StatusInternalServerError,
          Body        |-> MarshalHandE(handNew(ErrCodeUnknown)).bytes,
          ContentType |-> JSONContentType]

(***************************************************************************)
(* package strings                                                         *)
(***************************************************************************)
IndexByte(s, c) ==
    IF \E i \in 1..Len(s) : SubSeq(s, i, i) = c
    THEN CHOOSE i \in 1..Len(s) :
            /\ SubSeq(s, i, i) = c
            /\ \A j \in 1..(i - 1) : SubSeq(s, j, j) # c
    ELSE 0

RECURSIVE TrimLeft(_, _)
TrimLeft(s, cutset) ==
    IF Len(s) > 0 /\ IndexByte(cutset, SubSeq(s, 1, 1)) # 0
    THEN TrimLeft(SubSeq(s, 2, Len(s)), cutset)
    ELSE s

RECURSIVE TrimRight(_, _)
TrimRight(s, cutset) ==
    IF Len(s) > 0 /\ IndexByte(cutset, SubSeq(s, Len(s), Len(s))) # 0
    THEN TrimRight(SubSeq(s, 1, Len(s) - 1), cutset)
    ELSE s

\* strings.Trim(s, cutset)
Trim(s, cutset) == TrimRight(TrimLeft(s, cutset), cutset)

\* strings.Split(s, sep) for a one-byte separator; Split("", sep) is [""]
RECURSIVE Split(_, _)
Split(s, sep) ==
    LET i == IndexByte(s, sep)
    IN  IF i = 0 THEN <<s>>
        ELSE <<SubSeq(s, 1, i - 1)>> \o Split(SubSeq(s, i + 1, Len(s)), sep)

(***************************************************************************)
(* Untyped authorizer data: map[string]interface{}.  A value is absent, a  *)
(* string, a number, a map of claims or a list.                            *)
(***************************************************************************)
Absent    == [t |-> "absent"]
Str(s)    == [t |-> "string", s |-> s]
Num(n)    == [t |-> "number", n |-> n]
List(xs)  == [t |-> "list", items |-> xs]
ClaimsMap(jti, v, iss, sub, aud) ==
    [t |-> "map", jti |-> jti, v |-> v, iss |-> iss, sub |-> sub, aud |-> aud]
NilAuthorizer == [t |-> "nil"]
Authdata(claims, scopes) == [t |-> "data", claims |-> claims, scopes |-> scopes]

\* auth.Claims{}
EmptyClaims ==
    [ID |-> "", Version |-> "", Issuer |-> "", Subject |-> "",
     Audience |-> <<>>, Scopes |-> <<>>]

\* the loop of createAuthIdentity over authdata["scopes"]
RECURSIVE appendStringScopes(_, _)
appendStringScopes(acc, scopes) ==
    IF scopes = <<>> THEN acc
    ELSE appendStringScopes(
             IF Head(scopes).t = "string" THEN Append(acc, Head(scopes).s) ELSE acc,
             Tail(scopes))

\* createAuthIdentity with a claim of the wrong type reported as an error
createAuthIdentity_strict(authdata) ==
    IF authdata.claims.t # "map"
    THEN [identity |-> EmptyClaims, err |-> NoError]
    ELSE LET claims == authdata.claims
             typed(name) == claims[name].t \in {"absent", "string"}
         IN  IF ~(typed("jti") /\ typed("v") /\ typed("iss") /\ typed("sub"))
             THEN [identity |-> EmptyClaims,
                   err |-> handNew(ErrCodeInvalidAuthentication)]
             ELSE [identity |->
                     [ID       |-> IF claims.jti.t = "string" THEN claims.jti.s ELSE "",
                      Version  |-> IF claims.v.t = "string" THEN claims.v.s ELSE "",
                      Issuer   |-> IF claims.iss.t = "string" THEN claims.iss.s ELSE "",
                      Subject  |-> IF claims.sub.t = "string" THEN claims.sub.s ELSE "",
                      Audience |-> IF claims.aud.t = "string"
                                   THEN Split(Trim(claims.aud.s, "[]"), " ")
                                   ELSE <<>>,
                      Scopes   |-> IF authdata.scopes.t = "list"
                                   THEN appendStringScopes(<<>>, authdata.scopes.items)
                                   ELSE <<>>],
                   err |-> NoError]

createAuthIdentity(authdata) ==
    IF authdata.claims.t # "map"
    THEN [identity |-> EmptyClaims, err |-> NoError]
    ELSE LET claims == authdata.claims
         IN  [identity |->
                [ID       |-> IF claims.jti.t = "string" THEN claims.jti.s ELSE "",
                 Version  |-> IF claims.v.t = "string" THEN claims.v.s ELSE "",
                 Issuer   |-> IF claims.iss.t = "string" THEN claims.iss.s ELSE "",
                 Subject  |-> IF claims.sub.t = "string" THEN claims.sub.s ELSE "",
                 Audience |-> IF claims.aud.t = "string"
                              THEN Split(Trim(claims.aud.s, "[]"), " ")
                              ELSE <<>>,
                 Scopes   |-> IF authdata.scopes.t = "list"
                              THEN appendStringScopes(<<>>, authdata.scopes.items)
                              ELSE <<>>],
              err |-> NoError]

(***************************************************************************)
(* The service: registered methods and their lookup                        *)
(***************************************************************************)
Methods == {"ping", "echo"}

\* Service.GetMethod(name): exact-match lookup in the registry
GetMethod(name) == [ok |-> name \in Methods, handler |-> name]

\* (result, err) pairs a Method.Invoke may return
InvokeOutcomes ==
    {[result |-> r, err |-> NoError] : r \in Results}
        \cup {[result |-> NilResult, err |-> e] : e \in Errors}

\* what a configured identity provider hook may answer where it is called
\* for an error (wrap_api_gateway_http.go line 38): nil or an error
HookVerdicts ==
    {NoError, handNew(ErrCodeForbidden), handNew("teapot"),
     errorsNew("dial tcp 10.0.0.1:5432: refused")}

(***************************************************************************)
(* Requests                                                                *)
(***************************************************************************)
NoValue == [k |-> "none"]

\* event.PathParameters, a map[string]string, as its set of entries
PathParameterSamples ==
    {{}, {<<"proxy", "ping">>}, {<<"method", "nope">>}, {<<"method", "Ping">>},
     {<<"method", "ping">>}, {<<"method", "echo">>, <<"stage", "v1">>}}

HasKey(m, key) == \E kv \in m : kv[1] = key
Lookup(m, key) == (CHOOSE kv \in m : kv[1] = key)[2]

AuthorizerSamples ==
    {NilAuthorizer,
     Authdata(Absent, Absent),
     Authdata(ClaimsMap(Absent, Absent, Absent, Str("u1"), Str("[a b]")),
              List(<<Str("read"), Str("write")>>))}

BodySamples == {"", "{\"text\":\"hi\"}"}

GatewayEvents ==
    [authorizer : AuthorizerSamples, pathParameters : PathParameterSamples,
     body : BodySamples]

(***************************************************************************)
(* Service.WrapAPIGatewayHTTP: the returned Lambda handler                 *)
(***************************************************************************)
\* return apiGatewayErrorResponse(err), nil
GwReturnError(err) ==
    /\ res' = apiGatewayErrorResponse(err)
    /\ rendered' = Append(rendered, err)
    /\ pc' = "done"

\* err != nil after s.IdentityProvider(ctx, identity) (line 39)
ProviderFailed(err) == err # NoError

\* the nil test left out: every result goes on to be encoded
IsNoContent_never(r) == FALSE

\* result == nil (line 67; devserver.go line 153)
IsNoContent(r) == r = NilResult

\* Invoke called without the request body
InvokeArgument_empty(e) == ""

\* []byte(event.Body), the argument of handler.Invoke (line 62)
InvokeArgument(e) == e.body

\* a request arrives at the Lambda handler
GwReceive ==
    /\ pc \in {"idle", "done"}
    /\ \E e \in GatewayEvents : event' = e
    /\ adapter' = "gw"
    /\ pc' = "gw_identity"
    /\ req' = NoValue
    /\ identity' = NoValue
    /\ idErr' = NoError
    /\ hookLog' = <<>>
    /\ invoked' = <<>>
    /\ invokeErr' = NoError
    /\ result' = NilResult
    /\ rendered' = <<>>
    /\ res' = NoValue
    /\ w' = <<>>
    /\ panicked' = FALSE
    /\ UNCHANGED svcVars

\* lines 28-44: identity from the authorizer, then the identity provider
GwIdentity ==
    /\ pc = "gw_identity"
    /\ IF event.authorizer = NilAuthorizer
       THEN /\ pc' = "gw_route"
            /\ UNCHANGED <<identity, idErr, hookLog, rendered, res>>
       ELSE LET r == createAuthIdentity(event.authorizer)
            IN  /\ idErr' = r.err
                /\ IF r.err # NoError
                   THEN /\ GwReturnError(r.err)
                        /\ UNCHANGED <<identity, hookLog>>
                   ELSE /\ identity' = r.identity
                        /\ IF identityProvider # "nil"
                           THEN \E verdict \in HookVerdicts :
                                  /\ hookLog' = Append(hookLog, verdict)
                                  /\ IF ProviderFailed(verdict)
                                     THEN GwReturnError(verdict)
                                     ELSE /\ pc' = "gw_route"
                                          /\ UNCHANGED <<rendered, res>>
                           ELSE /\ pc' = "gw_route"
                                /\ UNCHANGED <<hookLog, rendered, res>>
    /\ UNCHANGED <<svcVars, adapter, event, req, invoked, invokeErr, result, w,
                   panicked>>

\* lines 46-60: the method named by the path parameters
GwRoute ==
    /\ pc = "gw_route"
    /\ IF Cardinality(event.pathParameters) < 1
       THEN GwReturnError(handNew("method_not_found"))
       ELSE IF ~HasKey(event.pathParameters, "method")
       THEN GwReturnError(handNew("method_not_found"))
       ELSE IF ~GetMethod(Lookup(event.pathParameters, "method")).ok
       THEN GwReturnError(handNew("method_not_found"))
       ELSE /\ pc' = "gw_invoke"
            /\ UNCHANGED <<rendered, res>>
    /\ UNCHANGED <<svcVars, adapter, event, req, identity, idErr, hookLog,
                   invoked, invokeErr, result, w, panicked>>

\* lines 62-73: the call of the method, its error, its nil result
GwInvoke ==
    /\ pc = "gw_invoke"
    /\ \E out \in InvokeOutcomes :
          /\ invoked' = Append(invoked, InvokeArgument(event))
          /\ result' = out.result
          /\ invokeErr' = out.err
          /\ IF out.err # NoError
             THEN GwReturnError(out.err)
             ELSE IF IsNoContent(out.result)
             THEN /\ res' = [StatusCode  |-> StatusNoContent, Body |-> "",
                          ContentType |-> NoContentType]
                  /\ pc' = "done"
                  /\ UNCHANGED rendered
             ELSE /\ pc' = "gw_encode"
                  /\ UNCHANGED <<rendered, res>>
    /\ UNCHANGED <<svcVars, adapter, event, req, identity, idErr, hookLog, w,
                   panicked>>

\* lines 75-88: the result encoded as the response body
GwEncode ==
    /\ pc = "gw_encode"
    /\ LET m == Marshal(result)
       IN  IF m.err # NoError
           THEN GwReturnError(m.err)
           ELSE /\ res' = [StatusCode  |-> StatusOK, Body |-> m.bytes,
                        ContentType |-> JSONContentType]
                /\ pc' = "done"
                /\ UNCHANGED rendered
    /\ UNCHANGED <<svcVars, adapter, event, req, identity, idErr, hookLog,
                   invoked, invokeErr, result, w, panicked>>

(***************************************************************************)
(* devserver/authenticator.go                                              *)
(***************************************************************************)
\* Authorization header values: none, and tokens by what the JWT library
\* makes of them
Tokens ==
    {"", "garbage", "forged", "expired", "wrongissuer", "valid", "validnoscope"}

\* the `scope` claim of a token that verifies
TokenScope(token) == IF token = "valid" THEN "read write" ELSE ""

\* Authenticator.Authenticate(ctx, token)
Authenticate(token) ==
    CASE token \in {"", "garbage"} ->  \* jwt.ParseSigned fails
            [claims |-> NoValue,
             err |-> WithMessage(handNew(ErrCodeInvalidToken), "jwt parse error")]
      [] token = "forged" ->        \* tok.Claims fails: its error is returned
            [claims |-> NoValue,
             err |-> errorsNew("square/go-jose: error in cryptographic primitive")]
      [] token = "expired" ->       \* cl.Validate returns jwt.ErrExpired
            [claims |-> NoValue,
             err |-> WithMessage(handNew(ErrCodeInvalidToken), "token expired")]
      [] token = "wrongissuer" ->   \* cl.Validate returns another error
            [claims |-> NoValue,
             err |-> WithMessage(handNew(ErrCodeInvalidToken),
                                 "jwt validation error")]
      [] OTHER ->
            [claims |-> [ID |-> "", Version |-> "1", Issuer |-> "https://idp",
                         Subject |-> "u1", Audience |-> <<"a">>,
                         Scopes |-> Split(TokenScope(token), " ")],
             err |-> NoError]

(***************************************************************************)
(* devserver/devserver.go                                                  *)
(***************************************************************************)
\* Calls on the http.ResponseWriter.  Response headers (CORS, Content-Type)
\* are left out; the middlewares New installs before the route, other than
\* Recoverer, hand a JSON request on unchanged.
WriteHeader(status) == [call |-> "WriteHeader", status |-> status]
Write(bytes)        == [call |-> "Write", bytes |-> bytes]

\* sendHTTPError with the Forbidden case left out of the switch
sendHTTPError_noForbiddenCase(err) ==
    LET handErr == IF IsHandE(err) THEN err ELSE handNew(ErrCodeUnknown)
        status ==
            CASE handErr.code \in {ErrCodeBadRequest, ErrCodeInvalidBody,
                                   ErrCodeSchemaFailure, ErrCodeMissingBody}
                      -> StatusBadRequest
              [] handErr.code \in {ErrCodeNoAuthentication,
                                   ErrCodeInvalidAuthentication}
                      -> StatusUnauthorized
              [] OTHER -> StatusInternalServerError
        m == MarshalHandE(handErr)
        body == IF m.err # NoError
                THEN "{\"code\":\"error_serialisation_fail\"}"
                ELSE m.bytes
    IN  <<WriteHeader(status), Write(body)>>

\* sendHTTPError(w, err): the calls it makes on w
sendHTTPError(err) ==
    LET handErr == IF IsHandE(err) THEN err ELSE handNew(ErrCodeUnknown)
        status ==
            CASE handErr.code \in {ErrCodeBadRequest, ErrCodeInvalidBody,
                                   ErrCodeSchemaFailure, ErrCodeMissingBody}
                      -> StatusBadRequest
              [] handErr.code = ErrCodeForbidden -> StatusForbidden
              [] handErr.code \in {ErrCodeNoAuthentication,
                                   ErrCodeInvalidAuthentication}
                      -> StatusUnauthorized
              [] OTHER -> StatusInternalServerError
        m == MarshalHandE(handErr)
        body == IF m.err # NoError
                THEN "{\"code\":\"error_serialisation_fail\"}"
                ELSE m.bytes
    IN  <<WriteHeader(status), Write(body)>>

\* http.Error(w, text, code): the calls it makes on w
httpError(text, code) == <<WriteHeader(code), Write(text \o "\n")>>

\* What net/http sends for a sequence of calls on the ResponseWriter: the
\* status of the first WriteHeader (200 when a Write comes first or nothing
\* is written; a later WriteHeader is superfluous and ignored) and the
\* written bytes in order.
RECURSIVE WrittenBytes(_)
WrittenBytes(calls) ==
    IF calls = <<>> THEN ""
    ELSE (IF Head(calls).call = "Write" THEN Head(calls).bytes ELSE "")
            \o WrittenBytes(Tail(calls))

SentStatus(calls) ==
    IF calls # <<>> /\ calls[1].call = "WriteHeader"
    THEN calls[1].status
    ELSE StatusOK

\* r.Body of a dev server request: nil, a reader that fails, or bytes
NilBody        == [k |-> "nil"]
BrokenBody     == [k |-> "broken"]
BytesBody(b)   == [k |-> "bytes", bytes |-> b]
DevBodies      == {NilBody, BrokenBody} \cup {BytesBody(b) : b \in BodySamples}

\* requests the router hands to the handlers AddService installs: a POST on
\* a registered method's path, or an OPTIONS preflight
DevRequests ==
    [method : {"POST", "OPTIONS"}, token : Tokens, body : DevBodies,
     route : Methods]

\* a request arrives at the route AddService made for the service
DevReceive ==
    /\ pc \in {"idle", "done"}
    /\ \E r \in DevRequests : req' = r
    /\ adapter' = "dev"
    /\ pc' = IF authnr # "nil" THEN "dev_auth" ELSE "dev_route"
    /\ event' = NoValue
    /\ identity' = NoValue
    /\ idErr' = NoError
    /\ hookLog' = <<>>
    /\ invoked' = <<>>
    /\ invokeErr' = NoError
    /\ result' = NilResult
    /\ rendered' = <<>>
    /\ res' = NoValue
    /\ w' = <<>>
    /\ panicked' = FALSE
    /\ UNCHANGED svcVars

\* What a configured identity provider hook may do where its answer is bound
\* to ctx and given to r.WithContext (lines 114 and 122).  The hook accepts
\* or rejects the caller; what the call site receives from it is a context,
\* or nil, and nothing else: no error of the hook reaches the middleware.
ContextAnswer(rejected) == [k |-> "context", rejected |-> rejected]
NilContext(rejected)    == [k |-> "nilcontext", rejected |-> rejected]
HookContexts ==
    {ContextAnswer(r) : r \in BOOLEAN} \cup {NilContext(r) : r \in BOOLEAN}

\* sendHTTPError(w, err); return
DevSendError(err) ==
    /\ w' = w \o sendHTTPError(err)
    /\ rendered' = Append(rendered, err)
    /\ pc' = "done"

\* newAuthenticationMiddleware, lines 96-126.  The hook's answer is bound to
\* ctx; the test that follows the call reads err, which still holds what
\* Authenticate returned.  r.WithContext(ctx) panics on a nil ctx.
DevAuthMiddleware ==
    /\ pc = "dev_auth"
    /\ IF req.method = "OPTIONS"
       THEN /\ pc' = "dev_route"
            /\ UNCHANGED <<hookLog, rendered, w>>
       ELSE IF req.token = ""
       THEN /\ DevSendError(handNew("authentication_required"))
            /\ UNCHANGED hookLog
       ELSE LET a == Authenticate(req.token)
            IN  IF a.err # NoError
                THEN /\ DevSendError(a.err)
                     /\ UNCHANGED hookLog
                ELSE IF identityProvider = "nil"
                THEN /\ pc' = "dev_panic"      \* call of a nil func value
                     /\ UNCHANGED <<hookLog, rendered, w>>
                ELSE \E ctx \in HookContexts :
                        /\ hookLog' = Append(hookLog, ctx)
                        /\ IF a.err # NoError
                           THEN DevSendError(handNew("authentication_error"))
                           ELSE /\ pc' = IF ctx.k = "nilcontext"
                                         THEN "dev_panic"   \* r.WithContext(nil)
                                         ELSE "dev_route"
                                /\ UNCHANGED <<rendered, w>>
    /\ UNCHANGED <<svcVars, adapter, event, req, identity, idErr, invoked,
                   invokeErr, result, res, panicked>>

\* middleware.Recoverer, installed by New: a panic below it ends the request
\* with a bare 500
DevRecoverer ==
    /\ pc = "dev_panic"
    /\ panicked' = TRUE
    /\ w' = Append(w, WriteHeader(StatusInternalServerError))
    /\ pc' = "done"
    /\ UNCHANGED <<svcVars, adapter, event, req, identity, idErr, hookLog,
                   invoked, invokeErr, result, rendered, res>>

\* optionsHandler
DevOptions ==
    /\ pc = "dev_route"
    /\ req.method = "OPTIONS"
    /\ w' = Append(w, WriteHeader(StatusNoContent))
    /\ pc' = "done"
    /\ UNCHANGED <<svcVars, adapter, event, req, identity, idErr, hookLog,
                   invoked, invokeErr, result, rendered, res, panicked>>

\* wrapRPCMethod, lines 131-145: the request body
DevReadBody ==
    /\ pc = "dev_route"
    /\ req.method = "POST"
    /\ IF req.body = NilBody
       THEN /\ w' = w \o httpError(ErrCodeMissingBody, StatusBadRequest)
            /\ pc' = "done"
            /\ UNCHANGED rendered
       ELSE IF req.body = BrokenBody
       THEN DevSendError(handNew(ErrCodeInvalidBody))
       ELSE /\ pc' = "dev_invoke"
            /\ UNCHANGED <<rendered, w>>
    /\ UNCHANGED <<svcVars, adapter, event, req, identity, idErr, hookLog,
                   invoked, invokeErr, result, res, panicked>>

\* wrapRPCMethod, lines 147-156: the call of the method, its error, its nil
\* result
DevInvoke ==
    /\ pc = "dev_invoke"
    /\ \E out \in InvokeOutcomes :
          /\ invoked' = Append(invoked, req.body.bytes)
          /\ result' = out.result
          /\ invokeErr' = out.err
          /\ IF out.err # NoError
             THEN DevSendError(out.err)
             ELSE IF IsNoContent(out.result)
             THEN /\ w' = Append(w, WriteHeader(StatusNoContent))
                  /\ pc' = "done"
                  /\ UNCHANGED rendered
             ELSE /\ pc' = "dev_encode"
                  /\ UNCHANGED <<rendered, w>>
    /\ UNCHANGED <<svcVars, adapter, event, req, identity, idErr, hookLog, res,
                   panicked>>

\* wrapRPCMethod, lines 158-166: the result encoded as the response body.
\* The branch for an encoding failure does not return.
DevEncode ==
    /\ pc = "dev_encode"
    /\ LET m == Marshal(result)
           failed == m.err # NoError
           afterError == IF failed
                         THEN w \o sendHTTPError(handNew(ErrCodeUnknown))
                         ELSE w
       IN  /\ w' = afterError \o <<WriteHeader(StatusOK), Write(m.bytes)>>
           /\ rendered' = IF failed
                          THEN Append(rendered, handNew(ErrCodeUnknown))
                          ELSE rendered
    /\ pc' = "done"
    /\ UNCHANGED <<svcVars, adapter, event, req, identity, idErr, hookLog,
                   invoked, invokeErr, result, res, panicked>>

\* the response the caller of either adapter receives
Response ==
    IF adapter = "gw"
    THEN [status |-> res.StatusCode, body |-> res.Body]
    ELSE [status |-> SentStatus(w), body |-> WrittenBytes(w)]

Init ==
    /\ identityProvider \in {"nil", "set"}
    /\ authnr \in {"nil", "set"}
    /\ adapter = "none"
    /\ pc = "idle"
    /\ event = NoValue
    /\ req = NoValue
    /\ identity = NoValue
    /\ idErr = NoError
    /\ hookLog = <<>>
    /\ invoked = <<>>
    /\ invokeErr = NoError
    /\ result = NilResult
    /\ rendered = <<>>
    /\ res = NoValue
    /\ w = <<>>
    /\ panicked = FALSE

Next ==
    \/ GwReceive
    \/ GwIdentity
    \/ GwRoute
    \/ GwInvoke
    \/ GwEncode
    \/ DevReceive
    \/ DevAuthMiddleware
    \/ DevRecoverer
    \/ DevOptions
    \/ DevReadBody
    \/ DevInvoke
    \/ DevEncode

Spec == Init /\ [][Next]_vars

(***************************************************************************)
(* Identity extraction on its own: the gateway handler's identity step     *)
(* over every authorizer payload of the bounded shape.                     *)
(***************************************************************************)
\* sequences over S of length at most n
SeqsUpTo(S, n) == UNION {[1..k -> S] : k \in 0..n}

ClaimsValues ==
    {Absent, Str("not a map"), Num(7)}
        \cup {ClaimsMap(jti, v, iss, sub, aud) :
                jti \in {Absent, Str("t-1"), Num(7)},
                v   \in {Absent, Str("2"), Num(2)},
                iss \in {Absent, Str("https://idp"), List(<<>>)},
                sub \in {Absent, Str("u1"), Num(1)},
                aud \in {Absent, Str("[a b]"), Str("a")}}

ScopesValues ==
    {Absent, Str("read write")}
        \cup {List(xs) : xs \in SeqsUpTo({Str("read"), Str("write"), Num(7)},
                                         MaxScopes)}

Authorizers == {Authdata(c, sc) : c \in ClaimsValues, sc \in ScopesValues}

\* a request with one of the authorizer payloads arrives at the Lambda handler
IdReceive ==
    /\ pc = "idle"
    /\ \E a \in Authorizers :
          event' = [authorizer |-> a, pathParameters |-> {<<"method", "ping">>},
                    body |-> ""]
    /\ adapter' = "gw"
    /\ pc' = "gw_identity"
    /\ UNCHANGED <<svcVars, req, identity, idErr, hookLog, invoked, invokeErr,
                   result, rendered, res, w, panicked>>

NextIdentity ==
    \/ IdReceive
    \/ GwIdentity

SpecIdentity == Init /\ [][NextIdentity]_vars

(***************************************************************************)
(* What the claims speak of                                                *)
(***************************************************************************)
\* the value of the leading "code" field of a JSON object, "" when the text
\* does not start with one
JSONCode(body) ==
    LET prefix == "{\"code\":\""
        rest   == SubSeq(body, Len(prefix) + 1, Len(body))
        q      == IndexByte(rest, "\"")
    IN  IF Len(body) > Len(prefix) /\ SubSeq(body, 1, Len(prefix)) = prefix /\ q > 0
        THEN SubSeq(rest, 1, q - 1)
        ELSE ""

Contains(s, t) ==
    \E i \in 1..(Len(s) - Len(t) + 1) : SubSeq(s, i, i + Len(t) - 1) = t

\* the error-to-status table of the specification
TableStatus(code) ==
    IF code \in {"bad_request", "invalid_body", "schema_failure", "missing_body"}
    THEN 400
    ELSE IF code \in {"no_authentication", "invalid_authentication"} THEN 401
    ELSE IF code = "forbidden" THEN 403
    ELSE 500

TableStatusOfError(e) == IF e.k = "hand" THEN TableStatus(e.code) ELSE 500

\* the code an error is to be reported with
ReportedCode(e) == IF e.k = "hand" THEN e.code ELSE "unknown"

Done == pc = "done"

\* the response is a failure
Failed == Response.status \notin {200, 204}

\* the identity provider hook rejected the caller: it returned an error
\* where it is called for one, it decided against the caller where it is
\* called for a context
HookRejected ==
    \E i \in 1..Len(hookLog) :
        \/ hookLog[i].k \in {"hand", "plain"}
        \/ hookLog[i].k \in {"context", "nilcontext"} /\ hookLog[i].rejected

\* the gateway request names a registered method
RouteOK ==
    \E kv \in event.pathParameters : kv[1] = "method" /\ kv[2] \in {"ping", "echo"}

\* C1: every request that ends in a failure has the status the table gives
\* for the code in its body, and its body is a JSON object with a `code`.
C1_FailureHasMappedStatusAndCode ==
    (Done /\ Failed) =>
        /\ JSONCode(Response.body) # ""
        /\ Response.status = TableStatus(JSONCode(Response.body))

\* C2: apiGatewayErrorResponse and sendHTTPError choose the same status for
\* every error, the one of the table (500 for what is not a hand.E), and the
\* response of a request that rendered an error carries that status.
C2_SameStatusMapping ==
    /\ \A e \in Errors :
          /\ apiGatewayErrorResponse(e).StatusCode = sendHTTPError(e)[1].status
          /\ sendHTTPError(e)[1].status = TableStatusOfError(e)
    /\ (Done /\ rendered # <<>>) =>
          Response.status = TableStatusOfError(rendered[1])

C2_Witness ==
    /\ Done
    /\ adapter = "dev"
    /\ rendered = <<WithMessage(handNew("forbidden"), "banned")>>
    /\ Response.status = 403

\* C3: once the identity provider hook has rejected the caller, Invoke is
\* never called for the request and the request ends with an error response.
C3_RejectedIdentityNeverInvokes ==
    HookRejected => (invoked = <<>> /\ (Done => Failed))

\* the call carries caller identity and is past the identity step
CarriesIdentity ==
    \/ /\ adapter = "gw"
       /\ event.authorizer # NilAuthorizer
       /\ pc # "gw_identity"
    \/ /\ adapter = "dev"
       /\ authnr # "nil"
       /\ req.method = "POST"
       /\ req.token \in {"valid", "validnoscope"}
       /\ pc # "dev_auth"

\* the request has what the method call needs besides identity
ReachesMethod ==
    \/ adapter = "gw" /\ RouteOK
    \/ adapter = "dev" /\ req.body.k = "bytes"

\* C4: for a call that carries caller identity, a configured hook has been
\* applied exactly once (so before any Invoke); with no hook configured the
\* call does not fail for it and goes on to Invoke.
C4_HookOncePerCall ==
    CarriesIdentity =>
        /\ identityProvider = "set" => Len(hookLog) = 1
        /\ identityProvider = "nil" =>
              /\ hookLog = <<>>
              /\ ~panicked /\ pc # "dev_panic"
              /\ (Done /\ ReachesMethod) => Len(invoked) = 1

\* the errors the request met: returned by the hook, by Invoke, by the
\* encoding of the result, and those given to a renderer
ErrorsMet ==
    {hookLog[i] : i \in {j \in 1..Len(hookLog) : hookLog[j].k \in {"hand", "plain"}}}
        \cup {invokeErr}
        \cup (IF Done /\ invoked # <<>> /\ invokeErr = NoError /\ result # NilResult
              THEN {Marshal(result).err} ELSE {})
        \cup {rendered[i] : i \in 1..Len(rendered)}

\* C5: the `code` of the error response body is the code of the error for a
\* hand.E (one from Invoke or from the identity provider included) and
\* Unknown otherwise, and no text of an unclassified error is in the body.
C5_BodyCodeIsErrorCode ==
    Done =>
        \A e \in ErrorsMet \ {NoError} :
            /\ Failed
            /\ JSONCode(Response.body) = ReportedCode(e)
            /\ e.k = "plain" => ~Contains(Response.body, e.text)

C5_Witness ==
    /\ Done
    /\ adapter = "gw"
    /\ invokeErr = errorsNew("forbidden")
    /\ Response = [status |-> 500, body |-> "{\"code\":\"unknown\"}"]

\* Invoke was called and returned no error
InvokeSucceeded == invoked # <<>> /\ invokeErr = NoError

\* C6 as stated: when Invoke returns no error the response is 204 with an
\* empty body for a nil result, else 200 with the JSON encoding of the
\* result; never an error status.
C6_SuccessIs204Or200 ==
    (Done /\ InvokeSucceeded) =>
        /\ result = NilResult => (Response.status = 204 /\ Response.body = "")
        /\ result # NilResult =>
              (Response.status = 200 /\ Response.body = Marshal(result).bytes)
        /\ ~Failed

\* C6 amended: ... else, when the result encodes, 200 with exactly its JSON
\* encoding; an error status follows a successful Invoke only when encoding
\* the result failed, and it is 500.
C6_SuccessUnlessEncodingFails ==
    (Done /\ InvokeSucceeded) =>
        /\ result = NilResult => (Response.status = 204 /\ Response.body = "")
        /\ (result # NilResult /\ Marshal(result).err = NoError) =>
              (Response.status = 200 /\ Response.body = Marshal(result).bytes)
        /\ Failed => (result # NilResult /\ Marshal(result).err # NoError
                        /\ Response.status = 500)

C6_Witness ==
    /\ Done /\ InvokeSucceeded
    /\ adapter = "dev"
    /\ result = [t |-> "object", text |-> "hi"]
    /\ Response = [status |-> 200, body |-> "{\"text\":\"hi\"}"]

\* the claim `name` of an authorizer payload when it is a string, else ""
StringClaim(authdata, name) ==
    IF authdata.claims.t = "map" /\ authdata.claims[name].t = "string"
    THEN authdata.claims[name].s
    ELSE ""

\* C7: createAuthIdentity returns no error for any authorizer map, id,
\* version, issuer and subject are the string claims jti, v, iss, sub (empty
\* when missing or not a string), and the gateway never answers with an
\* authorizer-parsing error.
C7_IdentityExtractionNeverFails ==
    (adapter = "gw" /\ event.authorizer # NilAuthorizer /\ pc # "gw_identity") =>
        /\ idErr = NoError
        /\ identity.ID = StringClaim(event.authorizer, "jti")
        /\ identity.Version = StringClaim(event.authorizer, "v")
        /\ identity.Issuer = StringClaim(event.authorizer, "iss")
        /\ identity.Subject = StringClaim(event.authorizer, "sub")
        /\ rendered # <<>> => (hookLog # <<>> /\ rendered = <<hookLog[1]>>)

C7_Witness ==
    /\ pc = "gw_route"
    /\ event.authorizer.claims.t = "map"
    /\ event.authorizer.claims.jti = Str("t-1")
    /\ event.authorizer.claims.v = Num(2)
    /\ event.authorizer.claims.iss = Absent
    /\ event.authorizer.claims.sub = Str("u1")
    /\ identity.ID = "t-1" /\ identity.Version = "" /\ identity.Issuer = ""
    /\ identity.Subject = "u1"

\* the string entries of a `scopes` value, in order
RECURSIVE StringEntries(_)
StringEntries(xs) ==
    IF xs = <<>> THEN <<>>
    ELSE (IF Head(xs).t = "string" THEN <<Head(xs).s>> ELSE <<>>)
            \o StringEntries(Tail(xs))

\* C8: the scopes of the extracted identity are exactly the string entries
\* of the payload's `scopes` sequence, in order, with or without a `claims`
\* map in the payload.
C8_ScopesAreStringEntries ==
    (adapter = "gw" /\ event.authorizer # NilAuthorizer /\ pc # "gw_identity"
        /\ event.authorizer.scopes.t = "list") =>
        identity.Scopes = StringEntries(event.authorizer.scopes.items)

\* C9: when encoding a non-nil result fails, the adapter emits exactly one
\* response, 500 with code Unknown, and nothing is written after it.
C9_EncodingFailureSingleResponse ==
    (Done /\ InvokeSucceeded /\ result # NilResult /\ Marshal(result).err # NoError) =>
        /\ Response.status = 500
        /\ JSONCode(Response.body) = "unknown"
        /\ adapter = "dev" =>
              /\ Len(SelectSeq(w, LAMBDA c : c.call = "WriteHeader")) = 1
              /\ \A i \in 1..Len(w) : w[i] # WriteHeader(200)
              /\ w[Len(w)] = Write("{\"code\":\"unknown\"}")

\* C10 as stated: in the gateway adapter Invoke is called at most once per
\* request: once, with the request body, when identity resolution did not
\* fail and the `method` path parameter names a registered method; never
\* when the path parameters are empty, `method` is absent or names no
\* registered method, and the response is then method_not_found, without a
\* panic.
C10_UnresolvedMethodIsNotFound ==
    adapter = "gw" =>
        /\ Len(invoked) <= 1
        /\ ~RouteOK => invoked = <<>>
        /\ ~panicked
        /\ Done =>
              /\ (~HookRejected /\ RouteOK) => invoked = <<event.body>>
              /\ ~RouteOK =>
                    /\ JSONCode(Response.body) = "method_not_found"
                    /\ Failed

\* C10 amended: ... never when the method cannot be resolved or identity
\* resolution failed; a request that passed identity resolution and whose
\* method cannot be resolved is answered method_not_found, without a panic.
C10_GatewayInvokesAtMostOnce ==
    adapter = "gw" =>
        /\ Len(invoked) <= 1
        /\ ~RouteOK => invoked = <<>>
        /\ HookRejected => invoked = <<>>
        /\ ~panicked
        /\ Done =>
              /\ (~HookRejected /\ RouteOK) => invoked = <<event.body>>
              /\ (~HookRejected /\ ~RouteOK) =>
                    /\ JSONCode(Response.body) = "method_not_found"
                    /\ Failed

C10_Witness ==
    /\ Done
    /\ adapter = "gw"
    /\ event.pathParameters = {<<"method", "echo">>, <<"stage", "v1">>}
    /\ event.body = "{\"text\":\"hi\"}"
    /\ invoked = <<"{\"text\":\"hi\"}">>
====
